---- MODULE Spec2Model ----
(***************************************************************************)
(* Model of src/end_events.rs: the platform lock backend (lock_screen,     *)
(* is_screen_locked) and the lock supervisor (continuously_lock_screen).   *)
(*                                                                         *)
(* Time is counted in ticks of 500 ms, the shortest sleep of the program.  *)
(* thread::sleep(d) is taken to last exactly d and an external command to  *)
(* take no time; two threads whose sleeps end at the same instant run in   *)
(* either order.                                                           *)
(***************************************************************************)
EXTENDS Integers, Sequences, FiniteSets, TLC

VARIABLES
    platform,        \* the cfg! target the binary was built for
    duration,        \* argument of continuously_lock_screen, in ticks
    now,             \* the clock, in ticks
    callerPc,        \* position of the thread running continuously_lock_screen
    callerWake,      \* end of the caller's thread::sleep(duration)
    should_stop,     \* the shared AtomicBool
    monPc,           \* position of the monitor thread
    monWake,         \* end of the monitor's current thread::sleep
    check_count,     \* the monitor's local check_count
    is_locked,       \* the monitor's local is_locked
    joinResult,      \* what monitor_thread.join() produced: "none", "ok", "err"
    \* history of the run (observations only, never read by the program)
    callerLocks,     \* lock_screen() calls made by the caller
    monLocks,        \* lock_screen() calls made by the monitor
    queries,         \* is_screen_locked() calls made by the monitor
    lastLockAt,      \* time of the latest lock_screen() call, -1 if none
    minGap,          \* shortest time between two consecutive monitor locks, -1 if none
    stopAt,          \* time of should_stop.store(true), -1 if not yet
    exitAt,          \* time the monitor thread ended, -1 if not yet
    locksAfterStop,  \* monitor lock_screen() calls made after the store
    queriesAfterStop,\* is_screen_locked() calls made after the store
    fatalSeen,       \* "none", "caller" or "monitor": whose lock_screen() panicked
    allUnlocked,     \* every is_screen_locked() answer so far was false
    scenario,        \* answers so far were false on polls 1 and 2, true afterwards
    stopWrites,      \* stores to should_stop made so far
    unlockedAnswers, \* is_screen_locked() answers that were false
    \* inputs and results of the backend functions taken on their own
    lockIn, lockOut, queryIn, queryOut,
    \* start_end_event / start_end_event_with_duration
    end_event,       \* the EndEvent dispatched
    mode,            \* "once" (start_end_event) or "withDuration"
    dispPc,          \* position of the dispatching call
    dispWake,        \* end of the thread::sleep(duration) of the Sound arm
    singleLocks,     \* lock_screen() calls made by start_end_event
    playCalls,       \* play_sound() calls made
    playAt,          \* time of the play_sound() call, -1 if none
    \* play_sound
    sndPc,           \* position inside play_sound
    fileExists,      \* the path refers to an existing file, now
    fsChanges,       \* times the file was created or removed meanwhile
    use_internal,    \* the local use_internal
    warned,          \* the "Sound file not found" warning was written
    source,          \* what was appended to the sink: "none", "internal", "external"
    openAttempts,    \* File::open calls made
    openedMissing,   \* File::open was called while the file did not exist
    existedAtCheck,  \* what path.is_file() answered
    existsAtLoad,    \* whether the file existed when the source was loaded
    \* serde_json::to_string / from_str of an EndEvent
    ser_value, ser_json, de_value

vars == << platform, duration, now, callerPc, callerWake, should_stop, monPc,
           monWake, check_count, is_locked, joinResult, callerLocks, monLocks,
           queries, lastLockAt, minGap, stopAt, exitAt, locksAfterStop,
           queriesAfterStop, fatalSeen, allUnlocked, scenario, stopWrites,
           unlockedAnswers, lockIn, lockOut, queryIn, queryOut,
           end_event, mode, dispPc, dispWake, singleLocks, playCalls, playAt,
           sndPc, fileExists, fsChanges, use_internal, warned, source,
           openAttempts, openedMissing, existedAtCheck, existsAtLoad,
           ser_value, ser_json, de_value >>

supervisorVars == << duration, now, callerPc, callerWake, should_stop, monPc,
           monWake, check_count, is_locked, joinResult, callerLocks, monLocks,
           queries, lastLockAt, minGap, stopAt, exitAt, locksAfterStop,
           queriesAfterStop, fatalSeen, allUnlocked, scenario, stopWrites,
           unlockedAnswers >>

backendVars == << lockIn, lockOut, queryIn, queryOut >>

soundVars == << sndPc, fileExists, fsChanges, use_internal, warned, source,
                openAttempts, openedMissing, existedAtCheck, existsAtLoad >>

dispatchVars == << end_event, mode, dispPc, dispWake, singleLocks, playCalls,
                   playAt, soundVars >>

serdeVars == << ser_value, ser_json, de_value >>

----------------------------------------------------------------------------
(* Bounds *)

\* longest supervised duration explored, in ticks (14 ticks = 7 s)
MaxDuration == 14

\* no run lasts longer: the monitor ends at most SettleDelay, or one loop
\* iteration, after the store
MaxTime == MaxDuration + 8

----------------------------------------------------------------------------
(* Program constants, in ticks of 500 ms *)

SettleDelay  == 6   \* Duration::from_secs(3)
GracePeriod  == 2   \* Duration::from_secs(1)
CoolDown     == 4   \* Duration::from_secs(2)
PollInterval == 1   \* Duration::from_millis(500)

Platforms == {"windows", "linux", "macos", "other"}

----------------------------------------------------------------------------
(* External commands.  Command::output() either fails to launch (Err) or   *)
(* gives an exit status and the bytes of stdout.                           *)

CmdOutcomes == {"launchFail", "exitFail", "ok"}

\* outcomes of the up to three lock commands one lock_screen() call may run
LockInputs == [1..3 -> CmdOutcomes]

\* "(true,)" and "(false,)" as gdbus prints them, and other outputs
StdoutTrue    == <<40, 116, 114, 117, 101, 44, 41>>
StdoutFalse   == <<40, 102, 97, 108, 115, 101, 44, 41>>
StdoutEmpty   == << >>
StdoutTru     == <<40, 116, 114, 117, 44, 41>>
StdoutBadTrue == <<255, 116, 114, 117, 101>>
StdoutSamples == {StdoutTrue, StdoutFalse, StdoutEmpty, StdoutTru, StdoutBadTrue}

QueryOutcomes ==
    {[launch |-> FALSE, success |-> FALSE, stdout |-> StdoutEmpty]}
    \cup [launch : {TRUE}, success : BOOLEAN, stdout : StdoutSamples]

\* outcomes of the up to two status queries one is_screen_locked() call may run
QueryInputs == [1..2 -> QueryOutcomes]

\* String::from_utf8 on the sample outputs: bytes below 128 are ASCII, a
\* byte 255 occurs in no UTF-8 text
FromUtf8Ok(bytes) == \A i \in 1..Len(bytes) : bytes[i] < 128

\* str::contains: pat occurs in s as a contiguous subsequence
Contains(s, pat) ==
    \E i \in 1..(Len(s) - Len(pat) + 1) : SubSeq(s, i, i + Len(pat) - 1) = pat

TrueLiteral == <<116, 114, 117, 101>>

----------------------------------------------------------------------------
(* lock_screen and its per-platform implementations.  The result records   *)
(* the commands handed to Command::output() in order, the message written  *)
(* to stderr and whether the call panicked.                                *)

LockResult(cmds, msg, panic) ==
    [attempted |-> cmds, stderr |-> msg, panicked |-> panic]

lock_screen_on_windows(outs) ==
    LockResult(<<"cmd">>, "", outs[1] = "launchFail")

\* a mutation of lock_screen_on_linux: the exit status is not looked at, a
\* command that launched counts as a success
lock_screen_on_linux_any_exit(outs) ==
    IF outs[1] # "launchFail" THEN LockResult(<<"loginctl">>, "", FALSE)
    ELSE IF outs[2] # "launchFail"
         THEN LockResult(<<"loginctl", "gnome-screensaver-command">>, "", FALSE)
    ELSE IF outs[3] # "launchFail"
         THEN LockResult(<<"loginctl", "gnome-screensaver-command", "dbus-send">>,
                         "", FALSE)
    ELSE LockResult(<<"loginctl", "gnome-screensaver-command", "dbus-send">>,
                    "Warning: Failed to lock screen", FALSE)

lock_screen_on_linux(outs) ==
    IF outs[1] = "ok" THEN LockResult(<<"loginctl">>, "", FALSE)
    ELSE IF outs[2] = "ok"
         THEN LockResult(<<"loginctl", "gnome-screensaver-command">>, "", FALSE)
    ELSE IF outs[3] = "ok"
         THEN LockResult(<<"loginctl", "gnome-screensaver-command", "dbus-send">>,
                         "", FALSE)
    ELSE LockResult(<<"loginctl", "gnome-screensaver-command", "dbus-send">>,
                    "Warning: Failed to lock screen", FALSE)

\* a mutation of lock_screen_on_macos: a launch failure is only warned about
lock_screen_on_macos_warn(outs) ==
    LockResult(<<"pmset">>,
               IF outs[1] = "launchFail" THEN "Warning: Failed to lock screen" ELSE "",
               FALSE)

lock_screen_on_macos(outs) ==
    LockResult(<<"pmset">>, "", outs[1] = "launchFail")

lock_screen(p, outs) ==
    IF p = "windows" THEN lock_screen_on_windows(outs)
    ELSE IF p = "linux" THEN lock_screen_on_linux(outs)
    ELSE IF p = "macos" THEN lock_screen_on_macos(outs)
    ELSE LockResult(<< >>, "Screen locking is not implemented", FALSE)

----------------------------------------------------------------------------
(* is_screen_locked and its per-platform implementations *)

\* a mutation of is_screen_locked_linux: the exit status is not looked at
is_screen_locked_linux_any_exit(qs) ==
    IF qs[1].launch /\ FromUtf8Ok(qs[1].stdout)
    THEN Contains(qs[1].stdout, TrueLiteral)
    ELSE IF qs[2].launch /\ FromUtf8Ok(qs[2].stdout)
         THEN Contains(qs[2].stdout, TrueLiteral)
         ELSE FALSE

is_screen_locked_linux(qs) ==
    IF qs[1].launch /\ qs[1].success /\ FromUtf8Ok(qs[1].stdout)
    THEN Contains(qs[1].stdout, TrueLiteral)
    ELSE IF qs[2].launch /\ qs[2].success /\ FromUtf8Ok(qs[2].stdout)
         THEN Contains(qs[2].stdout, TrueLiteral)
         ELSE FALSE

is_screen_locked_windows == FALSE

is_screen_locked_macos(qs) ==
    IF qs[1].launch THEN qs[1].success ELSE FALSE

is_screen_locked(p, qs) ==
    IF p = "linux" THEN is_screen_locked_linux(qs)
    ELSE IF p = "windows" THEN is_screen_locked_windows
    ELSE IF p = "macos" THEN is_screen_locked_macos(qs)
    ELSE FALSE

----------------------------------------------------------------------------
(* EndEvent.  Text is a sequence of characters; filepath_sound is an        *)
(* Option<PathBuf>.                                                        *)

NonePath    == [some |-> FALSE, path |-> << >>]
SomePath(p) == [some |-> TRUE, path |-> p]

Sound(fp)  == [variant |-> "Sound", filepath_sound |-> fp]
LockScreen == [variant |-> "LockScreen", filepath_sound |-> NonePath]

\* "sound.wav"
SoundWav == <<"s", "o", "u", "n", "d", ".", "w", "a", "v">>

\* the state of the dispatcher, of play_sound and of serde while they are
\* not in use
DispatchUnused ==
    /\ end_event = LockScreen
    /\ mode = "withDuration"
    /\ dispPc = "supervise"
    /\ dispWake = 0
    /\ singleLocks = 0
    /\ playCalls = 0
    /\ playAt = -1

SoundUnused ==
    /\ sndPc = "idle"
    /\ fileExists = FALSE
    /\ fsChanges = 0
    /\ use_internal = FALSE
    /\ warned = FALSE
    /\ source = "none"
    /\ openAttempts = 0
    /\ openedMissing = FALSE
    /\ existedAtCheck = FALSE
    /\ existsAtLoad = FALSE

SerdeUnused ==
    /\ ser_value = LockScreen
    /\ ser_json = [done |-> FALSE, text |-> << >>]
    /\ de_value = [done |-> FALSE, ok |-> FALSE, value |-> LockScreen]

----------------------------------------------------------------------------
(* The supervised run: continuously_lock_screen(duration) *)

NoLockOut   == [done |-> FALSE, attempted |-> << >>, stderr |-> "", panicked |-> FALSE]
NoQueryOut  == [done |-> FALSE, locked |-> FALSE]
NoLockIn    == [i \in 1..3 |-> "ok"]
NoQueryIn   == [i \in 1..2 |-> [launch |-> FALSE, success |-> FALSE, stdout |-> StdoutEmpty]]

SupervisorInit ==
    /\ now = 0
    /\ callerPc = "start"
    /\ callerWake = 0
    /\ should_stop = FALSE
    /\ monPc = "unspawned"
    /\ monWake = 0
    /\ check_count = 0
    /\ is_locked = FALSE
    /\ joinResult = "none"
    /\ callerLocks = 0
    /\ monLocks = 0
    /\ queries = 0
    /\ lastLockAt = -1
    /\ minGap = -1
    /\ stopAt = -1
    /\ exitAt = -1
    /\ locksAfterStop = 0
    /\ queriesAfterStop = 0
    /\ fatalSeen = "none"
    /\ allUnlocked = TRUE
    /\ scenario = TRUE
    /\ stopWrites = 0
    /\ unlockedAnswers = 0

Init ==
    /\ platform \in Platforms
    /\ duration \in 0..MaxDuration
    /\ SupervisorInit
    /\ lockIn = NoLockIn
    /\ lockOut = NoLockOut
    /\ queryIn = NoQueryIn
    /\ queryOut = NoQueryOut
    /\ DispatchUnused
    /\ SoundUnused
    /\ SerdeUnused

MonSleeping == monPc \in {"settle", "grace", "cooldown", "pollsleep"}
MonFinished == monPc \in {"exited", "panicked"}

\* a mutation of InitialLock: the caller goes on to the spawn without locking
InitialLockSkipped ==
    /\ callerPc = "start"
    /\ callerPc' = "spawn"
    /\ UNCHANGED << fatalSeen, callerLocks, lastLockAt >>
    /\ UNCHANGED << platform, duration, now, callerWake, should_stop, monPc,
                    monWake, check_count, is_locked, joinResult, monLocks,
                    queries, minGap, stopAt, exitAt, locksAfterStop,
                    queriesAfterStop, allUnlocked, scenario, backendVars, dispatchVars, serdeVars, stopWrites,
                    unlockedAnswers >>

\* lock_screen();  (the caller's, before the spawn)
InitialLock ==
    /\ callerPc = "start"
    /\ \E outs \in LockInputs :
         LET r == lock_screen(platform, outs) IN
           /\ callerPc' = IF r.panicked THEN "panicked" ELSE "spawn"
           /\ fatalSeen' = IF r.panicked THEN "caller" ELSE fatalSeen
    /\ callerLocks' = callerLocks + 1
    /\ lastLockAt' = now
    /\ UNCHANGED << platform, duration, now, callerWake, should_stop, monPc,
                    monWake, check_count, is_locked, joinResult, monLocks,
                    queries, minGap, stopAt, exitAt, locksAfterStop,
                    queriesAfterStop, allUnlocked, scenario, backendVars, dispatchVars, serdeVars, stopWrites,
                    unlockedAnswers >>

\* a mutation of Spawn: the monitor does not sleep before its first test
SpawnNoSettle ==
    /\ callerPc = "spawn"
    /\ callerPc' = "sleep"
    /\ callerWake' = now + duration
    /\ monPc' = "settle"
    /\ monWake' = now
    /\ UNCHANGED << platform, duration, now, should_stop, check_count,
                    is_locked, joinResult, callerLocks, monLocks, queries,
                    lastLockAt, minGap, stopAt, exitAt, locksAfterStop,
                    queriesAfterStop, fatalSeen, allUnlocked, scenario,
                    backendVars, dispatchVars, serdeVars, stopWrites,
                    unlockedAnswers >>

\* thread::spawn(..): the monitor starts its settle sleep, the caller its
\* thread::sleep(duration)
Spawn ==
    /\ callerPc = "spawn"
    /\ callerPc' = "sleep"
    /\ callerWake' = now + duration
    /\ monPc' = "settle"
    /\ monWake' = now + SettleDelay
    /\ UNCHANGED << platform, duration, now, should_stop, check_count,
                    is_locked, joinResult, callerLocks, monLocks, queries,
                    lastLockAt, minGap, stopAt, exitAt, locksAfterStop,
                    queriesAfterStop, fatalSeen, allUnlocked, scenario,
                    backendVars, dispatchVars, serdeVars, stopWrites,
                    unlockedAnswers >>

\* a mutation of SetStop: the store is made without waiting for the end of
\* the duration sleep
SetStopEarly ==
    /\ callerPc = "sleep"
    /\ should_stop' = TRUE
    /\ stopAt' = now
    /\ stopWrites' = stopWrites + 1
    /\ callerPc' = "join"
    /\ UNCHANGED << platform, duration, now, callerWake, monPc, monWake,
                    check_count, is_locked, joinResult, callerLocks, monLocks,
                    queries, lastLockAt, minGap, exitAt, locksAfterStop,
                    queriesAfterStop, fatalSeen, allUnlocked, scenario,
                    backendVars, dispatchVars, serdeVars, unlockedAnswers >>

\* the duration sleep ends; should_stop.store(true, Relaxed)
SetStop ==
    /\ callerPc = "sleep"
    /\ callerWake <= now
    /\ should_stop' = TRUE
    /\ stopAt' = now
    /\ stopWrites' = stopWrites + 1
    /\ callerPc' = "join"
    /\ UNCHANGED << platform, duration, now, callerWake, monPc, monWake,
                    check_count, is_locked, joinResult, callerLocks, monLocks,
                    queries, lastLockAt, minGap, exitAt, locksAfterStop,
                    queriesAfterStop, fatalSeen, allUnlocked, scenario,
                    backendVars, dispatchVars, serdeVars, unlockedAnswers >>

\* a mutation of Join: the caller returns without waiting for the monitor
JoinNoWait ==
    /\ callerPc = "join"
    /\ joinResult' = "ok"
    /\ callerPc' = "returned"
    /\ UNCHANGED << platform, duration, now, callerWake, should_stop, monPc,
                    monWake, check_count, is_locked, callerLocks, monLocks,
                    queries, lastLockAt, minGap, stopAt, exitAt,
                    locksAfterStop, queriesAfterStop, fatalSeen, allUnlocked,
                    scenario, backendVars, dispatchVars, serdeVars, stopWrites,
                    unlockedAnswers >>

\* let _ = monitor_thread.join();  blocks until the monitor thread has ended,
\* the Result (Err when the thread panicked) is dropped
Join ==
    /\ callerPc = "join"
    /\ MonFinished
    /\ joinResult' = IF monPc = "panicked" THEN "err" ELSE "ok"
    /\ callerPc' = "returned"
    /\ UNCHANGED << platform, duration, now, callerWake, should_stop, monPc,
                    monWake, check_count, is_locked, callerLocks, monLocks,
                    queries, lastLockAt, minGap, stopAt, exitAt,
                    locksAfterStop, queriesAfterStop, fatalSeen, allUnlocked,
                    scenario, backendVars, dispatchVars, serdeVars, stopWrites,
                    unlockedAnswers >>

----------------------------------------------------------------------------
(* The monitor thread *)

\* thread::sleep(Duration::from_secs(3)) ends
SettleDone ==
    /\ monPc = "settle"
    /\ monWake <= now
    /\ monPc' = "test"
    /\ UNCHANGED << platform, duration, now, callerPc, callerWake, should_stop,
                    monWake, check_count, is_locked, joinResult, callerLocks,
                    monLocks, queries, lastLockAt, minGap, stopAt, exitAt,
                    locksAfterStop, queriesAfterStop, fatalSeen, allUnlocked,
                    scenario, backendVars, dispatchVars, serdeVars, stopWrites,
                    unlockedAnswers >>

\* a mutation of LoopTest: the flag is tested after the body (do .. while),
\* so the first iteration always runs
LoopTestDoWhile ==
    /\ monPc = "test"
    /\ IF should_stop /\ check_count > 0
       THEN /\ monPc' = "exited"
            /\ exitAt' = now
            /\ UNCHANGED check_count
       ELSE /\ monPc' = "poll"
            /\ check_count' = check_count + 1
            /\ UNCHANGED exitAt
    /\ UNCHANGED << platform, duration, now, callerPc, callerWake, should_stop,
                    monWake, is_locked, joinResult, callerLocks, monLocks,
                    queries, lastLockAt, minGap, stopAt, locksAfterStop,
                    queriesAfterStop, fatalSeen, allUnlocked, scenario,
                    backendVars, dispatchVars, serdeVars, stopWrites,
                    unlockedAnswers >>

\* a mutation of LoopTest: the flag is never seen set (while true)
LoopTestNeverExits ==
    /\ monPc = "test"
    /\ IF FALSE
       THEN /\ monPc' = "exited"
            /\ exitAt' = now
            /\ UNCHANGED check_count
       ELSE /\ monPc' = "poll"
            /\ check_count' = check_count + 1
            /\ UNCHANGED exitAt
    /\ UNCHANGED << platform, duration, now, callerPc, callerWake, should_stop,
                    monWake, is_locked, joinResult, callerLocks, monLocks,
                    queries, lastLockAt, minGap, stopAt, locksAfterStop,
                    queriesAfterStop, fatalSeen, allUnlocked, scenario,
                    backendVars, dispatchVars, serdeVars, stopWrites,
                    unlockedAnswers >>

\* while !should_stop_clone.load(Relaxed) { check_count += 1; ..
\* and, when the flag is set, the end of the closure
LoopTest ==
    /\ monPc = "test"
    /\ IF should_stop
       THEN /\ monPc' = "exited"
            /\ exitAt' = now
            /\ UNCHANGED check_count
       ELSE /\ monPc' = "poll"
            /\ check_count' = check_count + 1
            /\ UNCHANGED exitAt
    /\ UNCHANGED << platform, duration, now, callerPc, callerWake, should_stop,
                    monWake, is_locked, joinResult, callerLocks, monLocks,
                    queries, lastLockAt, minGap, stopAt, locksAfterStop,
                    queriesAfterStop, fatalSeen, allUnlocked, scenario,
                    backendVars, dispatchVars, serdeVars, stopWrites,
                    unlockedAnswers >>

\* a mutation of Poll: the answer is not looked at, the re-lock always follows
PollAlwaysRelock ==
    /\ monPc = "poll"
    /\ \E qs \in QueryInputs :
         LET a == is_screen_locked(platform, qs) IN
           /\ is_locked' = a
           /\ allUnlocked' = (allUnlocked /\ ~a)
           /\ unlockedAnswers' = IF a THEN unlockedAnswers ELSE unlockedAnswers + 1
           /\ scenario' = (scenario /\ (a = (queries + 1 > 2)))
           /\ monPc' = "grace"
           /\ monWake' = now + GracePeriod
    /\ queries' = queries + 1
    /\ queriesAfterStop' = IF should_stop THEN queriesAfterStop + 1
                           ELSE queriesAfterStop
    /\ UNCHANGED << platform, duration, now, callerPc, callerWake, should_stop,
                    check_count, joinResult, callerLocks, monLocks, lastLockAt,
                    minGap, stopAt, exitAt, locksAfterStop, fatalSeen,
                    backendVars, dispatchVars, serdeVars, stopWrites >>

\* let is_locked = is_screen_locked(); then the grace sleep when unlocked,
\* the poll sleep when locked
Poll ==
    /\ monPc = "poll"
    /\ \E qs \in QueryInputs :
         LET a == is_screen_locked(platform, qs) IN
           /\ is_locked' = a
           /\ allUnlocked' = (allUnlocked /\ ~a)
           /\ unlockedAnswers' = IF a THEN unlockedAnswers ELSE unlockedAnswers + 1
           /\ scenario' = (scenario /\ (a = (queries + 1 > 2)))
           /\ monPc' = IF a THEN "pollsleep" ELSE "grace"
           /\ monWake' = IF a THEN now + PollInterval ELSE now + GracePeriod
    /\ queries' = queries + 1
    /\ queriesAfterStop' = IF should_stop THEN queriesAfterStop + 1
                           ELSE queriesAfterStop
    /\ UNCHANGED << platform, duration, now, callerPc, callerWake, should_stop,
                    check_count, joinResult, callerLocks, monLocks, lastLockAt,
                    minGap, stopAt, exitAt, locksAfterStop, fatalSeen,
                    backendVars, dispatchVars, serdeVars, stopWrites >>

\* a mutation of Relock: no cool-down sleep after the lock
RelockNoCoolDown ==
    /\ monPc = "grace"
    /\ monWake <= now
    /\ \E outs \in LockInputs :
         LET r == lock_screen(platform, outs) IN
           /\ monPc' = IF r.panicked THEN "panicked" ELSE "cooldown"
           /\ fatalSeen' = IF r.panicked THEN "monitor" ELSE fatalSeen
           /\ exitAt' = IF r.panicked THEN now ELSE exitAt
    /\ monWake' = now
    /\ monLocks' = monLocks + 1
    /\ locksAfterStop' = IF should_stop THEN locksAfterStop + 1
                         ELSE locksAfterStop
    /\ minGap' = IF monLocks = 0 THEN minGap
                 ELSE IF minGap = -1 \/ now - lastLockAt < minGap
                      THEN now - lastLockAt
                      ELSE minGap
    /\ lastLockAt' = now
    /\ UNCHANGED << platform, duration, now, callerPc, callerWake, should_stop,
                    check_count, is_locked, joinResult, callerLocks, queries,
                    stopAt, queriesAfterStop, allUnlocked, scenario,
                    backendVars, dispatchVars, serdeVars, stopWrites,
                    unlockedAnswers >>

\* the grace sleep ends; lock_screen(); then the cool-down sleep.  A panic
\* of lock_screen() ends the thread.
Relock ==
    /\ monPc = "grace"
    /\ monWake <= now
    /\ \E outs \in LockInputs :
         LET r == lock_screen(platform, outs) IN
           /\ monPc' = IF r.panicked THEN "panicked" ELSE "cooldown"
           /\ fatalSeen' = IF r.panicked THEN "monitor" ELSE fatalSeen
           /\ exitAt' = IF r.panicked THEN now ELSE exitAt
    /\ monWake' = now + CoolDown
    /\ monLocks' = monLocks + 1
    /\ locksAfterStop' = IF should_stop THEN locksAfterStop + 1
                         ELSE locksAfterStop
    /\ minGap' = IF monLocks = 0 THEN minGap
                 ELSE IF minGap = -1 \/ now - lastLockAt < minGap
                      THEN now - lastLockAt
                      ELSE minGap
    /\ lastLockAt' = now
    /\ UNCHANGED << platform, duration, now, callerPc, callerWake, should_stop,
                    check_count, is_locked, joinResult, callerLocks, queries,
                    stopAt, queriesAfterStop, allUnlocked, scenario,
                    backendVars, dispatchVars, serdeVars, stopWrites,
                    unlockedAnswers >>

\* the cool-down sleep ends; the poll sleep starts
CoolDownDone ==
    /\ monPc = "cooldown"
    /\ monWake <= now
    /\ monPc' = "pollsleep"
    /\ monWake' = now + PollInterval
    /\ UNCHANGED << platform, duration, now, callerPc, callerWake, should_stop,
                    check_count, is_locked, joinResult, callerLocks, monLocks,
                    queries, lastLockAt, minGap, stopAt, exitAt,
                    locksAfterStop, queriesAfterStop, fatalSeen, allUnlocked,
                    scenario, backendVars, dispatchVars, serdeVars, stopWrites,
                    unlockedAnswers >>

\* a mutation of PollSleepDone: the next iteration starts without a test of
\* the flag
PollSleepDoneSkipTest ==
    /\ monPc = "pollsleep"
    /\ monWake <= now
    /\ monPc' = "poll"
    /\ UNCHANGED << platform, duration, now, callerPc, callerWake, should_stop,
                    monWake, check_count, is_locked, joinResult, callerLocks,
                    monLocks, queries, lastLockAt, minGap, stopAt, exitAt,
                    locksAfterStop, queriesAfterStop, fatalSeen, allUnlocked,
                    scenario, backendVars, dispatchVars, serdeVars, stopWrites,
                    unlockedAnswers >>

\* thread::sleep(Duration::from_millis(500)) ends; back to the loop test
PollSleepDone ==
    /\ monPc = "pollsleep"
    /\ monWake <= now
    /\ monPc' = "test"
    /\ UNCHANGED << platform, duration, now, callerPc, callerWake, should_stop,
                    monWake, check_count, is_locked, joinResult, callerLocks,
                    monLocks, queries, lastLockAt, minGap, stopAt, exitAt,
                    locksAfterStop, queriesAfterStop, fatalSeen, allUnlocked,
                    scenario, backendVars, dispatchVars, serdeVars, stopWrites,
                    unlockedAnswers >>

----------------------------------------------------------------------------
(* Time *)

CallerRunnable ==
    \/ callerPc \in {"start", "spawn"}
    \/ callerPc = "sleep" /\ callerWake <= now
    \/ callerPc = "join" /\ MonFinished

MonRunnable ==
    \/ monPc \in {"test", "poll"}
    \/ MonSleeping /\ monWake <= now

\* half a second passes: every live thread is asleep or blocked in join()
Tick ==
    /\ ~CallerRunnable
    /\ ~MonRunnable
    /\ callerPc = "sleep" \/ MonSleeping
    /\ now < MaxTime
    /\ now' = now + 1
    /\ UNCHANGED << platform, duration, callerPc, callerWake, should_stop,
                    monPc, monWake, check_count, is_locked, joinResult,
                    callerLocks, monLocks, queries, lastLockAt, minGap, stopAt,
                    exitAt, locksAfterStop, queriesAfterStop, fatalSeen,
                    allUnlocked, scenario, backendVars, dispatchVars, serdeVars, stopWrites,
                    unlockedAnswers >>

Next ==
    \/ InitialLock
    \/ Spawn
    \/ SetStop
    \/ Join
    \/ SettleDone
    \/ LoopTest
    \/ Poll
    \/ Relock
    \/ CoolDownDone
    \/ PollSleepDone
    \/ Tick

Spec == Init /\ [][Next]_vars

\* the scheduler runs every runnable thread and time goes on: a step that
\* stays possible is eventually taken
FairSpec == Spec /\ WF_vars(Next)

----------------------------------------------------------------------------
(* The backend functions on their own: every platform, every combination   *)
(* of command outcomes, one call of each function.                         *)

BackendInit ==
    /\ platform \in Platforms
    /\ duration = 0
    /\ SupervisorInit
    /\ lockIn \in LockInputs
    /\ queryIn \in QueryInputs
    /\ lockOut = NoLockOut
    /\ queryOut = NoQueryOut
    /\ DispatchUnused
    /\ SoundUnused
    /\ SerdeUnused

CallLockScreen ==
    /\ ~lockOut.done
    /\ lockOut' = LET r == lock_screen(platform, lockIn) IN
                    [done |-> TRUE, attempted |-> r.attempted,
                     stderr |-> r.stderr, panicked |-> r.panicked]
    /\ UNCHANGED << platform, supervisorVars, lockIn, queryIn, queryOut,
                    dispatchVars, serdeVars >>

CallIsScreenLocked ==
    /\ ~queryOut.done
    /\ queryOut' = [done |-> TRUE, locked |-> is_screen_locked(platform, queryIn)]
    /\ UNCHANGED << platform, supervisorVars, lockIn, queryIn, lockOut,
                    dispatchVars, serdeVars >>

BackendNext ==
    \/ CallLockScreen
    \/ CallIsScreenLocked

BackendSpec == BackendInit /\ [][BackendNext]_vars

----------------------------------------------------------------------------
(* play_sound(filepath_sound) *)

\* times the file may be created or removed while play_sound runs
MaxFsChanges == 1

\* the decision of lines 309-325: the value of use_internal and whether the
\* warning is written; isFile is the answer of path.is_file()
resolve_source(fp, isFile) ==
    IF fp.some
    THEN IF fp.path = << >>
         THEN [use_internal |-> TRUE, warned |-> FALSE]
         ELSE IF ~isFile
              THEN [use_internal |-> TRUE, warned |-> TRUE]
              ELSE [use_internal |-> FALSE, warned |-> FALSE]
    ELSE [use_internal |-> TRUE, warned |-> FALSE]

NamesFile(fp) == fp.some /\ fp.path # << >>

\* OutputStream::try_default().expect(..); Sink::try_new(..).expect(..)
OpenOutput ==
    /\ sndPc = "init"
    /\ \E ok \in BOOLEAN :
         /\ sndPc' = IF ok THEN "resolve" ELSE "panicked"
         /\ dispPc' = IF ok THEN dispPc ELSE "panicked"
    /\ UNCHANGED << platform, supervisorVars, backendVars, serdeVars,
                    end_event, mode, dispWake, singleLocks, playCalls, playAt,
                    fileExists, fsChanges, use_internal, warned, source,
                    openAttempts, openedMissing, existedAtCheck, existsAtLoad >>

\* let use_internal = ..
ResolveSource ==
    /\ sndPc = "resolve"
    /\ LET r == resolve_source(end_event.filepath_sound, fileExists) IN
         /\ use_internal' = r.use_internal
         /\ warned' = r.warned
    /\ existedAtCheck' = (NamesFile(end_event.filepath_sound) /\ fileExists)
    /\ sndPc' = "load"
    /\ UNCHANGED << platform, supervisorVars, backendVars, serdeVars,
                    end_event, mode, dispPc, dispWake, singleLocks, playCalls,
                    playAt, fileExists, fsChanges, source, openAttempts,
                    openedMissing, existsAtLoad >>

\* if use_internal { Decoder::new(cursor).expect(..) }
\* else { File::open(path).expect(..); Decoder::new(file).expect(..) }
\* then sink.append(source)
LoadSource ==
    /\ sndPc = "load"
    /\ existsAtLoad' = (NamesFile(end_event.filepath_sound) /\ fileExists)
    /\ source' = IF use_internal THEN "internal" ELSE "external"
    /\ openAttempts' = IF use_internal THEN openAttempts ELSE openAttempts + 1
    /\ openedMissing' = (~use_internal /\ ~fileExists)
    /\ \E decodes \in BOOLEAN :
         LET ok == decodes /\ (use_internal \/ fileExists) IN
           /\ sndPc' = IF ok THEN "play" ELSE "panicked"
           /\ dispPc' = IF ok THEN dispPc ELSE "panicked"
    /\ UNCHANGED << platform, supervisorVars, backendVars, serdeVars,
                    end_event, mode, dispWake, singleLocks, playCalls, playAt,
                    fileExists, fsChanges, use_internal, warned,
                    existedAtCheck >>

\* sink.sleep_until_end(); play_sound and the dispatching call return
PlayToEnd ==
    /\ sndPc = "play"
    /\ sndPc' = "done"
    /\ dispPc' = "done"
    /\ UNCHANGED << platform, supervisorVars, backendVars, serdeVars,
                    end_event, mode, dispWake, singleLocks, playCalls, playAt,
                    fileExists, fsChanges, use_internal, warned, source,
                    openAttempts, openedMissing, existedAtCheck, existsAtLoad >>

\* the file system is not the program's: the file named by the path is
\* created or removed while play_sound runs
FileChange ==
    /\ sndPc \in {"init", "resolve", "load"}
    /\ NamesFile(end_event.filepath_sound)
    /\ fsChanges < MaxFsChanges
    /\ fileExists' = ~fileExists
    /\ fsChanges' = fsChanges + 1
    /\ UNCHANGED << platform, supervisorVars, backendVars, serdeVars,
                    end_event, mode, dispPc, dispWake, singleLocks, playCalls,
                    playAt, sndPc, use_internal, warned, source, openAttempts,
                    openedMissing, existedAtCheck, existsAtLoad >>

----------------------------------------------------------------------------
(* start_end_event and start_end_event_with_duration *)

SampleEvents ==
    {LockScreen, Sound(NonePath), Sound(SomePath(<< >>)), Sound(SomePath(SoundWav))}

DispatchInit ==
    /\ platform \in Platforms
    /\ mode \in {"once", "withDuration"}
    /\ duration \in IF mode = "once" THEN {0} ELSE 0..MaxDuration
    /\ end_event \in SampleEvents
    /\ fileExists \in IF NamesFile(end_event.filepath_sound) THEN BOOLEAN ELSE {FALSE}
    /\ dispPc = "idle"
    /\ dispWake = 0
    /\ singleLocks = 0
    /\ playCalls = 0
    /\ playAt = -1
    /\ sndPc = "idle"
    /\ fsChanges = 0
    /\ use_internal = FALSE
    /\ warned = FALSE
    /\ source = "none"
    /\ openAttempts = 0
    /\ openedMissing = FALSE
    /\ existedAtCheck = FALSE
    /\ existsAtLoad = FALSE
    /\ now = 0
    /\ callerPc = "idle"
    /\ callerWake = 0
    /\ should_stop = FALSE
    /\ monPc = "unspawned"
    /\ monWake = 0
    /\ check_count = 0
    /\ is_locked = FALSE
    /\ joinResult = "none"
    /\ callerLocks = 0
    /\ monLocks = 0
    /\ queries = 0
    /\ lastLockAt = -1
    /\ minGap = -1
    /\ stopAt = -1
    /\ exitAt = -1
    /\ locksAfterStop = 0
    /\ queriesAfterStop = 0
    /\ fatalSeen = "none"
    /\ allUnlocked = TRUE
    /\ scenario = TRUE
    /\ stopWrites = 0
    /\ unlockedAnswers = 0
    /\ lockIn = NoLockIn
    /\ lockOut = NoLockOut
    /\ queryIn = NoQueryIn
    /\ queryOut = NoQueryOut
    /\ SerdeUnused

runVars == << duration, callerWake, should_stop, monPc, monWake, check_count,
              is_locked, joinResult, callerLocks, monLocks, queries,
              lastLockAt, minGap, stopAt, exitAt, locksAfterStop,
              queriesAfterStop, fatalSeen, allUnlocked, scenario, stopWrites,
              unlockedAnswers >>

\* start_end_event(end_event): play_sound(filepath_sound) or lock_screen()
StartEndEvent ==
    /\ dispPc = "idle"
    /\ mode = "once"
    /\ IF end_event.variant = "Sound"
       THEN /\ dispPc' = "play"
            /\ sndPc' = "init"
            /\ playCalls' = playCalls + 1
            /\ playAt' = now
            /\ UNCHANGED singleLocks
       ELSE /\ \E outs \in LockInputs :
                 dispPc' = IF lock_screen(platform, outs).panicked
                           THEN "panicked" ELSE "done"
            /\ singleLocks' = singleLocks + 1
            /\ UNCHANGED << sndPc, playCalls, playAt >>
    /\ UNCHANGED << platform, supervisorVars, backendVars, serdeVars,
                    end_event, mode, dispWake, fileExists, fsChanges,
                    use_internal, warned, source, openAttempts, openedMissing,
                    existedAtCheck, existsAtLoad >>

\* a mutation of StartEndEventWithDuration: the Sound arm does not sleep
StartEndEventWithDurationNoSleep ==
    /\ dispPc = "idle"
    /\ mode = "withDuration"
    /\ IF end_event.variant = "Sound"
       THEN /\ dispPc' = "sleep"
            /\ dispWake' = now
            /\ UNCHANGED callerPc
       ELSE /\ dispPc' = "supervise"
            /\ callerPc' = "start"
            /\ UNCHANGED dispWake
    /\ UNCHANGED << platform, now, runVars, backendVars, serdeVars, end_event,
                    mode, singleLocks, playCalls, playAt, soundVars >>

\* start_end_event_with_duration(end_event, duration): the Sound arm starts
\* thread::sleep(duration), the LockScreen arm calls continuously_lock_screen
StartEndEventWithDuration ==
    /\ dispPc = "idle"
    /\ mode = "withDuration"
    /\ IF end_event.variant = "Sound"
       THEN /\ dispPc' = "sleep"
            /\ dispWake' = now + duration
            /\ UNCHANGED callerPc
       ELSE /\ dispPc' = "supervise"
            /\ callerPc' = "start"
            /\ UNCHANGED dispWake
    /\ UNCHANGED << platform, now, runVars, backendVars, serdeVars, end_event,
                    mode, singleLocks, playCalls, playAt, soundVars >>

\* thread::sleep(duration) ends; play_sound(filepath_sound)
SoundSleepDone ==
    /\ dispPc = "sleep"
    /\ dispWake <= now
    /\ dispPc' = "play"
    /\ sndPc' = "init"
    /\ playCalls' = playCalls + 1
    /\ playAt' = now
    /\ UNCHANGED << platform, supervisorVars, backendVars, serdeVars,
                    end_event, mode, dispWake, singleLocks, fileExists,
                    fsChanges, use_internal, warned, source, openAttempts,
                    openedMissing, existedAtCheck, existsAtLoad >>

\* half a second of the Sound arm's sleep passes
SoundSleepTick ==
    /\ dispPc = "sleep"
    /\ dispWake > now
    /\ now < MaxTime
    /\ now' = now + 1
    /\ UNCHANGED << platform, callerPc, runVars, backendVars, serdeVars,
                    dispatchVars >>

\* continuously_lock_screen returned, or was aborted by a panic
SuperviseDone ==
    /\ dispPc = "supervise"
    /\ callerPc \in {"returned", "panicked"}
    /\ dispPc' = IF callerPc = "returned" THEN "done" ELSE "panicked"
    /\ UNCHANGED << platform, supervisorVars, backendVars, serdeVars,
                    end_event, mode, dispWake, singleLocks, playCalls, playAt,
                    soundVars >>

DispatchNext ==
    \/ StartEndEvent
    \/ StartEndEventWithDuration
    \/ SoundSleepDone
    \/ SoundSleepTick
    \/ SuperviseDone
    \/ OpenOutput
    \/ ResolveSource
    \/ LoadSource
    \/ PlayToEnd
    \/ FileChange
    \/ Next

DispatchSpec == DispatchInit /\ [][DispatchNext]_vars

----------------------------------------------------------------------------
(* serde_json::to_string and serde_json::from_str of an EndEvent, as the   *)
(* derive of lines 46-57 defines them: externally tagged, rename_all and   *)
(* rename_all_fields = "camelCase", filepath_sound with default and        *)
(* skip_serializing_if = "Option::is_none".                                *)

\* longest path drawn from PathChars
MaxPathLen == 3

PathChars == {"a", ".", "\\", "\""}

Paths == UNION {[1..n -> PathChars] : n \in 0..MaxPathLen}

LowerLetters ==
    <<"a", "b", "c", "d", "e", "f", "g", "h", "i", "j", "k", "l", "m", "n",
      "o", "p", "q", "r", "s", "t", "u", "v", "w", "x", "y", "z">>

UpperLetters ==
    <<"A", "B", "C", "D", "E", "F", "G", "H", "I", "J", "K", "L", "M", "N",
      "O", "P", "Q", "R", "S", "T", "U", "V", "W", "X", "Y", "Z">>

IndexIn(c, letters) ==
    IF \E i \in 1..Len(letters) : letters[i] = c
    THEN CHOOSE i \in 1..Len(letters) : letters[i] = c
    ELSE 0

ToLower(c) ==
    LET i == IndexIn(c, UpperLetters) IN IF i = 0 THEN c ELSE LowerLetters[i]

ToUpper(c) ==
    LET i == IndexIn(c, LowerLetters) IN IF i = 0 THEN c ELSE UpperLetters[i]

\* the Rust names
SoundName == <<"S", "o", "u", "n", "d">>
LockScreenName == <<"L", "o", "c", "k", "S", "c", "r", "e", "e", "n">>
FilepathSoundName ==
    <<"f", "i", "l", "e", "p", "a", "t", "h", "_", "s", "o", "u", "n", "d">>

\* a mutation of CamelVariant: the variant name is written as it is
CamelVariantAsIs(name) == name

\* rename_all = "camelCase" on a variant: the first letter in lower case
CamelVariant(name) == <<ToLower(Head(name))>> \o Tail(name)

\* a snake_case name in PascalCase: "_" dropped, the next letter in upper case
RECURSIVE PascalField(_, _)
PascalField(name, capitalize) ==
    IF name = << >> THEN << >>
    ELSE IF Head(name) = "_" THEN PascalField(Tail(name), TRUE)
    ELSE <<IF capitalize THEN ToUpper(Head(name)) ELSE Head(name)>>
             \o PascalField(Tail(name), FALSE)

\* rename_all_fields = "camelCase" on a field
CamelField(name) ==
    LET pascal == PascalField(name, TRUE) IN <<ToLower(Head(pascal))>> \o Tail(pascal)

\* the content of a JSON string: quote and backslash escaped
RECURSIVE Escape(_)
Escape(t) ==
    IF t = << >> THEN << >>
    ELSE IF Head(t) \in {"\"", "\\"} THEN <<"\\", Head(t)>> \o Escape(Tail(t))
    ELSE <<Head(t)>> \o Escape(Tail(t))

Quote(t) == <<"\"">> \o Escape(t) \o <<"\"">>

\* a mutation of skip_serializing_if: an empty path is skipped too
skip_if_none_or_empty(fp) == ~fp.some \/ fp.path = << >>

\* skip_serializing_if = "Option::is_none"
skip_serializing_if(fp) == ~fp.some

VariantName(ev) == IF ev.variant = "Sound" THEN SoundName ELSE LockScreenName

\* serde_json::to_string(&end_event)
to_string(ev) ==
    IF ev.variant = "LockScreen"
    THEN Quote(CamelVariant(VariantName(ev)))
    ELSE <<"{">> \o Quote(CamelVariant(VariantName(ev))) \o <<":", "{">>
         \o (IF skip_serializing_if(ev.filepath_sound) THEN << >>
             ELSE Quote(CamelField(FilepathSoundName)) \o <<":">>
                  \o Quote(ev.filepath_sound.path))
         \o <<"}", "}">>

At(t, i) == IF i >= 1 /\ i <= Len(t) THEN t[i] ELSE ""

\* the rest of a JSON string after its opening quote: its content, unescaped,
\* and the position after the closing quote
RECURSIVE ScanString(_, _, _)
ScanString(t, i, acc) ==
    IF i > Len(t) THEN [ok |-> FALSE, str |-> acc, next |-> i]
    ELSE IF t[i] = "\"" THEN [ok |-> TRUE, str |-> acc, next |-> i + 1]
    ELSE IF t[i] = "\\"
         THEN IF At(t, i + 1) \in {"\"", "\\"}
              THEN ScanString(t, i + 2, Append(acc, t[i + 1]))
              ELSE [ok |-> FALSE, str |-> acc, next |-> i]
    ELSE ScanString(t, i + 1, Append(acc, t[i]))

ReadString(t, i) ==
    IF At(t, i) = "\"" THEN ScanString(t, i + 1, << >>)
    ELSE [ok |-> FALSE, str |-> << >>, next |-> i]

Parsed(ev) == [ok |-> TRUE, value |-> ev]
ParseError == [ok |-> FALSE, value |-> LockScreen]

\* serde_json::from_str::<EndEvent>(text), on text without white space: a
\* string is a unit variant, an object with one key a struct variant; a
\* missing filepathSound is None (serde(default))
from_str(t) ==
    IF At(t, 1) = "\""
    THEN LET r == ReadString(t, 1) IN
           IF r.ok /\ r.next = Len(t) + 1 /\ r.str = CamelVariant(LockScreenName)
           THEN Parsed(LockScreen) ELSE ParseError
    ELSE IF At(t, 1) = "{"
    THEN LET k == ReadString(t, 2) IN
           IF k.ok /\ k.str = CamelVariant(SoundName)
                 /\ At(t, k.next) = ":" /\ At(t, k.next + 1) = "{"
           THEN LET j == k.next + 2 IN
                  IF At(t, j) = "}"
                  THEN IF At(t, j + 1) = "}" /\ j + 1 = Len(t)
                       THEN Parsed(Sound(NonePath)) ELSE ParseError
                  ELSE LET f == ReadString(t, j) IN
                         IF f.ok /\ f.str = CamelField(FilepathSoundName)
                               /\ At(t, f.next) = ":"
                         THEN LET v == ReadString(t, f.next + 1) IN
                                IF v.ok /\ At(t, v.next) = "}"
                                      /\ At(t, v.next + 1) = "}"
                                      /\ v.next + 1 = Len(t)
                                THEN Parsed(Sound(SomePath(v.str)))
                                ELSE ParseError
                         ELSE ParseError
           ELSE ParseError
    ELSE ParseError

SerdeSamples ==
    {LockScreen, Sound(NonePath), Sound(SomePath(SoundWav))}
    \cup {Sound(SomePath(path)) : path \in Paths}

SerdeInit ==
    /\ platform = "linux"
    /\ duration = 0
    /\ SupervisorInit
    /\ lockIn = NoLockIn
    /\ lockOut = NoLockOut
    /\ queryIn = NoQueryIn
    /\ queryOut = NoQueryOut
    /\ DispatchUnused
    /\ SoundUnused
    /\ ser_value \in SerdeSamples
    /\ ser_json = [done |-> FALSE, text |-> << >>]
    /\ de_value = [done |-> FALSE, ok |-> FALSE, value |-> LockScreen]

Serialize ==
    /\ ~ser_json.done
    /\ ser_json' = [done |-> TRUE, text |-> to_string(ser_value)]
    /\ UNCHANGED << platform, supervisorVars, backendVars, dispatchVars,
                    ser_value, de_value >>

Deserialize ==
    /\ ser_json.done
    /\ ~de_value.done
    /\ de_value' = LET r == from_str(ser_json.text) IN
                     [done |-> TRUE, ok |-> r.ok, value |-> r.value]
    /\ UNCHANGED << platform, supervisorVars, backendVars, dispatchVars,
                    ser_value, ser_json >>

SerdeNext ==
    \/ Serialize
    \/ Deserialize

SerdeSpec == SerdeInit /\ [][SerdeNext]_vars

----------------------------------------------------------------------------
(* Properties of the supervised run (checked under Spec) *)

\* C1: continuously_lock_screen returns only after the monitor thread has
\* ended: in no reachable state has the call returned while the monitor is
\* still running, for every duration (0 included) and every answer of
\* is_screen_locked().
C1_ReturnsAfterMonitorExit ==
    callerPc = "returned" => MonFinished /\ joinResult # "none"

\* the call has returned from a run of duration 0 whose monitor went through
\* its settle sleep and left its loop
C1_Witness ==
    callerPc = "returned" /\ duration = 0 /\ monPc = "exited" /\ exitAt = SettleDelay

\* C2: the caller calls lock_screen() exactly once, unconditionally, before
\* the monitor thread is spawned and so before the first is_screen_locked()
\* query, for every duration.
C2_InitialLockFirst ==
    /\ callerLocks <= 1
    /\ callerPc # "start" => callerLocks = 1
    /\ monPc # "unspawned" => callerLocks = 1
    /\ queries > 0 \/ monLocks > 0 => callerLocks = 1

\* the monitor has made its first query, after the caller's single lock
C2_Witness ==
    queries = 1 /\ monLocks = 0 /\ callerLocks = 1

\* C3: once the caller has set should_stop the monitor issues no further
\* lock_screen(), and none is issued after the call has returned.
C3_NoLockAfterStop ==
    /\ [](locksAfterStop = 0)
    /\ [][callerPc = "returned" => monLocks' = monLocks]_vars

C5_TwoRelocks ==
    duration = 2 * PollInterval /\ scenario /\ callerPc = "returned"
        => callerLocks = 1 /\ monLocks = 2 /\ joinResult = "ok"

\* C5 (amended): a run of duration 2 poll intervals sets should_stop before
\* the settle delay is over, so the monitor makes no query and no re-lock:
\* one lock_screen() call in all, the initial one, and the call returns
\* cleanly when the settle delay ends.
C5_NoRelock ==
    duration = 2 * PollInterval /\ scenario /\ callerPc = "returned"
        => /\ callerLocks = 1
           /\ monLocks = 0
           /\ queries = 0
           /\ joinResult = "ok"
           /\ stopAt = duration
           /\ now = SettleDelay

\* the run of duration 2 poll intervals has returned
C5_Witness ==
    duration = 2 * PollInterval /\ scenario /\ callerPc = "returned"
        /\ monPc = "exited"

\* C6: while is_screen_locked() has always answered unlocked, two
\* consecutive lock_screen() calls of the monitor are never closer than the
\* grace period plus the cool-down (3 s).
C6_RelockRateLimited ==
    allUnlocked /\ minGap # -1 => minGap >= GracePeriod + CoolDown

\* the monitor has locked twice in a row, every answer having been unlocked
C6_Witness ==
    allUnlocked /\ monLocks >= 2 /\ minGap # -1

\* C7: when a lock_screen() call of a supervised run panics, the caller's or
\* the monitor's, continuously_lock_screen never returns normally.
C7_FatalPropagates ==
    fatalSeen # "none" => callerPc # "returned"

----------------------------------------------------------------------------
(* Properties of the backend functions (checked under BackendSpec) *)

LaunchFailed == lockIn[1] = "launchFail"
NoneSucceeded == \A i \in 1..3 : lockIn[i] # "ok"
LinuxWarning == "Warning: Failed to lock screen"

LinuxOrder == <<"loginctl", "gnome-screensaver-command", "dbus-send">>

\* index of the first command that launches and exits successfully, 0 if none
FirstSuccess ==
    IF NoneSucceeded THEN 0
    ELSE CHOOSE i \in 1..3 : lockIn[i] = "ok" /\ \A j \in 1..(i - 1) : lockIn[j] # "ok"

\* C9: on Linux lock_screen() tries loginctl, gnome-screensaver-command and
\* dbus-send in that order, stops at the first that launches and exits
\* successfully, tries all three when none does, and then writes a warning
\* and returns normally.
C9_LinuxFallbackOrder ==
    lockOut.done /\ platform = "linux" =>
        /\ ~lockOut.panicked
        /\ lockOut.attempted =
               SubSeq(LinuxOrder, 1, IF FirstSuccess = 0 THEN 3 ELSE FirstSuccess)
        /\ lockOut.stderr = IF FirstSuccess = 0 THEN LinuxWarning ELSE ""

\* loginctl launched and failed, gnome-screensaver-command succeeded,
\* dbus-send (which would have succeeded too) was not tried
C9_Witness ==
    /\ lockOut.done /\ platform = "linux"
    /\ lockIn = <<"exitFail", "ok", "ok">>
    /\ Len(lockOut.attempted) = 2

\* a status query answers when it launched, exited successfully and wrote
\* decodable text
Answers(q) == q.launch /\ q.success /\ FromUtf8Ok(q.stdout)
ReportsActive(q) == Contains(q.stdout, TrueLiteral)

----------------------------------------------------------------------------
(* Further properties of the supervised run (checked under Spec, the       *)
(* termination property under FairSpec)                                    *)

\* C11: should_stop starts false and is stored to exactly once in a run, by
\* the caller, after the duration sleep has ended; the monitor never stores
\* to it, and once true it stays true.
C11_StopSignalWrittenOnce ==
    /\ [](/\ callerPc = "start" => ~should_stop
          /\ stopWrites <= 1
          /\ should_stop <=> stopWrites = 1
          /\ should_stop => callerWake = duration /\ stopAt >= callerWake
          /\ callerPc = "returned" => stopWrites = 1)
    /\ [][/\ should_stop => should_stop'
          /\ (should_stop' # should_stop \/ stopWrites' # stopWrites)
               => /\ callerPc = "sleep" /\ callerPc' = "join"
                  /\ callerWake <= now
                  /\ monPc' = monPc]_vars

\* the run has returned, the flag was stored to once, at the end of a
\* duration sleep of 4.5 s
C11_Witness ==
    callerPc = "returned" /\ should_stop /\ stopWrites = 1 /\ stopAt = 9

\* The states of the run: 0 Idle (before the initial lock, or aborted by
\* it), 1 LockedInitial (locked, the monitor has not entered its loop),
\* 2 Monitoring (the monitor has entered its loop), 3 Stopping (should_stop
\* stored, join pending), 4 Stopped (the call has returned).
Phase ==
    IF callerPc \in {"start", "panicked"} THEN 0
    ELSE IF callerPc = "returned" THEN 4
    ELSE IF callerPc = "join" THEN 3
    ELSE IF check_count > 0 THEN 2
    ELSE 1

\* C16 (as claimed): every run goes through Idle, LockedInitial, Monitoring,
\* Stopping, Stopped in that order, one after the other, for every duration.
C16_AllStatesInOrder ==
    [][Phase' = Phase \/ Phase' = Phase + 1]_vars

\* C16 (amended): a run never goes back to an earlier state and goes through
\* Idle, LockedInitial, Stopping, Stopped in that order; Monitoring comes
\* between LockedInitial and Stopping when the duration is longer than the
\* settle delay, and is skipped when it is shorter.
C16_OrderWithOptionalMonitoring ==
    /\ [](duration < SettleDelay => Phase # 2)
    /\ [][\/ Phase' = Phase
          \/ Phase' = Phase + 1
          \/ Phase = 1 /\ Phase' = 3 /\ duration <= SettleDelay]_vars

\* a run of 2.5 s has returned and its monitor never entered its loop
C16_Witness ==
    Phase = 4 /\ check_count = 0 /\ duration = 5

\* C17: every iteration of the monitor loop makes one is_screen_locked()
\* query, and one lock_screen() call when the answer was not locked, none
\* when it was locked; the monitor never locks without a not locked answer
\* in the same iteration.
C17_OneQueryPerIteration ==
    /\ queries = IF monPc = "poll" THEN check_count - 1 ELSE check_count
    /\ monLocks = IF monPc = "grace" THEN unlockedAnswers - 1 ELSE unlockedAnswers
    /\ monPc = "grace" => ~is_locked
    /\ monPc \in {"unspawned", "settle"} => check_count = 0

\* three iterations were made, two answered locked and one not locked, and
\* the monitor locked once
C17_Witness ==
    check_count = 3 /\ queries = 3 /\ unlockedAnswers = 1 /\ monLocks = 1

\* C18 (as claimed): with fair scheduling every run ends: should_stop is
\* set, the monitor leaves its loop and the call returns.
C18_AlwaysReturns ==
    <>(should_stop /\ MonFinished /\ callerPc = "returned")

\* C18 (amended): with fair scheduling every run ends: either the initial
\* lock_screen() panics and the call is aborted before the monitor is
\* spawned, or should_stop is set, the monitor ends and the call returns.
C18_ReturnsUnlessInitialLockPanics ==
    /\ <>(callerPc \in {"panicked", "returned"})
    /\ callerPc = "spawn" ~> (should_stop /\ MonFinished /\ callerPc = "returned")
    /\ [](callerPc = "panicked" => fatalSeen = "caller" /\ monPc = "unspawned")

\* a run whose every answer was not locked has returned after the monitor
\* left its loop
C18_Witness ==
    /\ callerPc = "returned" /\ monPc = "exited" /\ should_stop
    /\ allUnlocked /\ queries = 2

\* C19: when the duration is shorter than the settle delay (0 included),
\* should_stop is set when the monitor first tests it: no query, no re-lock,
\* one lock_screen() call in all, and the call returns when the settle delay
\* is over, not before.
C19_ShortRunNoMonitoring ==
    duration < SettleDelay =>
        /\ queries = 0 /\ monLocks = 0 /\ check_count = 0
        /\ monPc = "test" => should_stop
        /\ callerPc = "returned" =>
               /\ callerLocks = 1
               /\ now >= SettleDelay
               /\ exitAt = SettleDelay

\* a run of 1.5 s has returned, at 3 s
C19_Witness ==
    duration = 3 /\ callerPc = "returned" /\ now = SettleDelay /\ callerLocks = 1

\* C20: after should_stop is set the monitor makes at most one more
\* is_screen_locked() query and at most one more lock_screen() call before
\* it ends, in every interleaving.
C20_AtMostOneMoreIteration ==
    queriesAfterStop <= 1 /\ locksAfterStop <= 1

\* the flag was set between the monitor's test and its query: one query and
\* one lock were made after the store, then the monitor left its loop
C20_Witness ==
    monPc = "exited" /\ queriesAfterStop = 1 /\ locksAfterStop = 1

----------------------------------------------------------------------------
(* Properties of play_sound and of the dispatch (checked under             *)
(* DispatchSpec)                                                           *)

\* C12: play_sound goes for the external file exactly when a path is given,
\* is not empty and names a file that exists when it is opened, and for the
\* embedded sound otherwise, without ever calling File::open on a file that
\* does not exist; the warning is written exactly when the path is not
\* empty and names no existing file.
C12_SourceResolution ==
    sndPc \in {"play", "done", "panicked"} /\ source # "none" =>
        /\ source = "external" => existsAtLoad
        /\ existedAtCheck /\ existsAtLoad => source = "external"
        /\ ~existedAtCheck /\ ~existsAtLoad => source = "internal"
        /\ ~openedMissing
        /\ warned <=> (NamesFile(end_event.filepath_sound) /\ ~existedAtCheck)

\* C15: start_end_event_with_duration on a Sound event sleeps the whole
\* duration and then calls play_sound once, with no lock_screen() or
\* is_screen_locked() call; on LockScreen it runs continuously_lock_screen
\* for the whole duration and plays nothing; start_end_event does the
\* event's action once, one play_sound or one lock_screen(), and nothing else.
C15_DispatchExclusive ==
    /\ end_event.variant = "Sound" =>
         /\ callerLocks = 0 /\ monLocks = 0 /\ queries = 0 /\ singleLocks = 0
         /\ callerPc = "idle" /\ monPc = "unspawned"
         /\ playCalls <= 1
         /\ dispPc \in {"idle", "sleep"} => playCalls = 0
         /\ dispPc \in {"play", "done"} => playCalls = 1
         /\ playCalls = 1 => playAt = duration /\ sndPc # "idle"
    /\ end_event.variant = "LockScreen" =>
         /\ playCalls = 0 /\ sndPc = "idle" /\ source = "none"
         /\ mode = "once" =>
              /\ singleLocks <= 1
              /\ dispPc # "idle" => singleLocks = 1
              /\ callerLocks = 0 /\ monLocks = 0 /\ queries = 0
              /\ callerPc = "idle" /\ monPc = "unspawned"
         /\ mode = "withDuration" =>
              /\ singleLocks = 0
              /\ dispPc # "idle" => callerPc # "idle"
              /\ should_stop => stopAt = duration
              /\ dispPc = "done" => callerPc = "returned" /\ should_stop

\* a Sound event was dispatched with a duration of 2 s and the external
\* file was played to its end, after the sleep
C15_Witness ==
    /\ end_event = Sound(SomePath(SoundWav)) /\ mode = "withDuration"
    /\ duration = 4 /\ dispPc = "done" /\ playAt = 4 /\ source = "external"

----------------------------------------------------------------------------
(* Properties of the serialization (checked under SerdeSpec) *)

\* {"sound":{"filepathSound":"sound.wav"}}
JsonExternal ==
    <<"{", "\"", "s", "o", "u", "n", "d", "\"", ":", "{", "\"", "f", "i",
      "l", "e", "p", "a", "t", "h", "S", "o", "u", "n", "d", "\"", ":",
      "\"", "s", "o", "u", "n", "d", ".", "w", "a", "v", "\"", "}", "}">>

\* {"sound":{}}
JsonInternal ==
    <<"{", "\"", "s", "o", "u", "n", "d", "\"", ":", "{", "}", "}">>

\* "lockScreen"
JsonLockScreen ==
    <<"\"", "l", "o", "c", "k", "S", "c", "r", "e", "e", "n", "\"">>

\* {"sound":{"filepathSound":""}}
JsonEmptyPath ==
    <<"{", "\"", "s", "o", "u", "n", "d", "\"", ":", "{", "\"", "f", "i",
      "l", "e", "p", "a", "t", "h", "S", "o", "u", "n", "d", "\"", ":",
      "\"", "\"", "}", "}">>

\* "filepathSound"
JsonFieldName ==
    <<"\"", "f", "i", "l", "e", "p", "a", "t", "h", "S", "o", "u", "n",
      "d", "\"">>

Examples == {Sound(SomePath(SoundWav)), Sound(NonePath), LockScreen}

\* C13: Sound with path "sound.wav", Sound with no path and LockScreen
\* serialize to {"sound":{"filepathSound":"sound.wav"}}, {"sound":{}} and
\* "lockScreen", and each of these texts deserializes to the value it came
\* from.
C13_ExamplesRoundTrip ==
    /\ ser_json.done =>
         /\ ser_value = Sound(SomePath(SoundWav)) => ser_json.text = JsonExternal
         /\ ser_value = Sound(NonePath) => ser_json.text = JsonInternal
         /\ ser_value = LockScreen => ser_json.text = JsonLockScreen
    /\ de_value.done /\ ser_value \in Examples =>
         de_value.ok /\ de_value.value = ser_value

\* Sound with path "sound.wav" was serialized to the expected text and read
\* back
C13_Witness ==
    /\ de_value.done /\ de_value.ok
    /\ ser_value = Sound(SomePath(SoundWav))
    /\ ser_json.text = JsonExternal
    /\ de_value.value = ser_value

HasField(text) == Contains(text, JsonFieldName)

\* C14 (as claimed): the serialized form of a Sound has the filepathSound
\* field exactly when the path is not empty: an absent path and the empty
\* path both give {"sound":{}}.
C14_FieldIffNonEmpty ==
    ser_json.done /\ ser_value.variant = "Sound" =>
        /\ HasField(ser_json.text)
             <=> (ser_value.filepath_sound.some /\ ser_value.filepath_sound.path # << >>)
        /\ ser_value.filepath_sound.path = << >> => ser_json.text = JsonInternal

\* C14 (amended): the serialized form of a Sound has the filepathSound field
\* exactly when the path is present (Some), the empty path included: an
\* absent path gives {"sound":{}}, the empty path {"sound":{"filepathSound":""}}.
C14_FieldIffSome ==
    ser_json.done /\ ser_value.variant = "Sound" =>
        /\ HasField(ser_json.text) <=> ser_value.filepath_sound.some
        /\ ~ser_value.filepath_sound.some => ser_json.text = JsonInternal
        /\ ser_value.filepath_sound = SomePath(<< >>) => ser_json.text = JsonEmptyPath

\* Sound with the empty path was serialized, with its field
C14_Witness ==
    /\ ser_json.done
    /\ ser_value = Sound(SomePath(<< >>))
    /\ ser_json.text = JsonEmptyPath

====
